---- MODULE Spec2Model ----
(***************************************************************************)
(* Copy-on-modify views of AnnData sub-containers                          *)
(* (anndata/_core/views.py).                                               *)
(*                                                                         *)
(* The heap maps storage locations to the attribute data of one AnnData.   *)
(* A root (an AnnData view object) points at the location it currently     *)
(* reads from; a view instance aliases the location it was built over.     *)
(* One call is in progress at a time (the code is single-threaded); the    *)
(* call frame records the position inside __setitem__ / drop / _update.    *)
(***************************************************************************)
EXTENDS Integers, Sequences, FiniteSets, TLC

VARIABLES heap, roots, inst, call, result, ncalls, comp

vars == <<heap, roots, inst, call, result, ncalls, comp>>

----------------------------------------------------------------------------
(* Bounds *)

NumRoots == 2
NumInst == 2
MaxCalls == 2
ArrLen == 2

(* Small carrier sets *)

Roots == 1..NumRoots
Inst == 1..NumInst
Keys == {"a", "b"}
SparseKeys == {"r", "c"}
NoLoc == -1
Upstream == 0

----------------------------------------------------------------------------
(* The Reference Descriptor (ElementRef) and its absence *)

None == [parent |-> 0, attrname |-> "None", keys |-> <<>>]

ElementRef(parent, attrname, keys) ==
    [parent |-> parent, attrname |-> attrname, keys |-> keys]

(* Attribute data of the un-subsetted AnnData every root starts as a view of *)
Zeros == [i \in 0..(ArrLen - 1) |-> 0]

(* uns is a mapping of mappings of mappings, as nested as a path is long *)
Leaf == [k \in {"a"} |-> 0]

EmptyMap == [k \in {} |-> 0]

InitialData ==
    [X |-> Zeros,
     obs |-> [k \in Keys |-> 0],
     uns |-> [a |-> [b |-> Leaf], b |-> [a |-> Leaf]],
     obsm |-> [k \in SparseKeys |-> Zeros]]

(* getattr(new, attr_name) *)
GetAttr(data, attrname) ==
    CASE attrname = "X" -> data.X
      [] attrname = "obs" -> data.obs
      [] attrname = "uns" -> data.uns
      [] attrname = "obsm" -> data.obsm

(* reduce(lambda d, k: d[k], keys, attr): defined when every key is present *)
RECURSIVE CanReduce(_, _)
CanReduce(d, keys) ==
    IF keys = <<>> THEN TRUE
    ELSE /\ Head(keys) \in DOMAIN d
         /\ CanReduce(d[Head(keys)], Tail(keys))

RECURSIVE Reduce(_, _)
Reduce(d, keys) ==
    IF keys = <<>> THEN d ELSE Reduce(d[Head(keys)], Tail(keys))

(* The attribute with the container reached by keys replaced by c: the      *)
(* effect on the attribute of mutating the live container Reduce returned.  *)
RECURSIVE Replace(_, _, _)
Replace(d, keys, c) ==
    IF keys = <<>> THEN c
    ELSE [d EXCEPT ![Head(keys)] = Replace(@, Tail(keys), c)]

SetAttr(data, attrname, a) ==
    CASE attrname = "X" -> [data EXCEPT !.X = a]
      [] attrname = "obs" -> [data EXCEPT !.obs = a]
      [] attrname = "uns" -> [data EXCEPT !.uns = a]
      [] attrname = "obsm" -> [data EXCEPT !.obsm = a]

----------------------------------------------------------------------------
(* View variants and the native behaviour they inherit *)

ArrayClasses == {"ArrayView", "SparseCSRView", "SparseCSCView"}
ViewMixinClasses == {"SparseCSRView", "SparseCSCView", "DictView", "DataFrameView"}

(* Keys a caller may pass: the first, the last and the first out-of-range   *)
(* position for the array shapes, labels for mappings and tables.           *)
IdxChoices(cls) ==
    IF cls \in ArrayClasses THEN {0, ArrLen - 1, ArrLen} ELSE Keys

(* super().__setitem__(idx, value) / container[idx] = value *)
NativeCanSetItem(cls, c, idx) ==
    IF cls \in ArrayClasses THEN idx \in DOMAIN c ELSE TRUE

NativeSetItem(cls, c, idx, value) ==
    IF cls \in ArrayClasses
    THEN [c EXCEPT ![idx] = value]
    ELSE [k \in (DOMAIN c) \cup {idx} |-> IF k = idx THEN value ELSE c[k]]

(* pd.DataFrame.drop(labels): a missing label is a KeyError *)
NativeCanDrop(c, label) == label \in DOMAIN c

NativeDrop(c, label) == [k \in (DOMAIN c) \ {label} |-> c[k]]

(* The class of the view built over each attribute's container *)
ClassOfAttr(attrname, keys) ==
    CASE attrname = "X" -> "ArrayView"
      [] attrname = "obs" -> "DataFrameView"
      [] attrname = "uns" -> "DictView"
      [] attrname = "obsm" /\ keys = <<"r">> -> "SparseCSRView"
      [] attrname = "obsm" /\ keys = <<"c">> -> "SparseCSCView"

Paths ==
    {<<"X", <<>>>>, <<"obs", <<>>>>, <<"uns", <<>>>>,
     <<"uns", <<"a", "b">>>>, <<"uns", <<"b", "a">>>>}
        \cup {<<"obsm", <<k>>>> : k \in SparseKeys}

(* Values a caller may assign: a mapping into the top level of uns, whose   *)
(* values are mappings, and anywhere else a number, the k-th mutating call  *)
(* assigning k.                                                             *)
ValChoices(at) ==
    IF at.attrname = "uns" /\ at.keys = <<>> THEN {EmptyMap} ELSE {ncalls + 1}

(* A view of root r over the container at path p, aliasing the storage the  *)
(* root reads from; and an instance that is not a view, which owns the      *)
(* storage at location own. An array that was cut out of another reads the  *)
(* same buffer from position offset on.                                     *)
ViewInstance(r, p, loc) ==
    [cls |-> ClassOfAttr(p[1], p[2]),
     view_args |-> ElementRef(r, p[1], p[2]),
     at |-> [loc |-> loc, attrname |-> p[1], keys |-> p[2], offset |-> 0]]

PlainInstance(p, own) ==
    [cls |-> ClassOfAttr(p[1], p[2]),
     view_args |-> None,
     at |-> [loc |-> own, attrname |-> p[1], keys |-> p[2], offset |-> 0]]

(* What reading instance o returns *)
ContentsAt(h, at) ==
    LET c == Reduce(GetAttr(h[at.loc], at.attrname), at.keys)
    IN IF at.offset = 0 THEN c
       ELSE [k \in 0..(ArrLen - 1 - at.offset) |-> c[k + at.offset]]

Contents(o) == ContentsAt(heap, inst[o].at)

----------------------------------------------------------------------------
(* The call frame *)

(* No index composition is under way *)
NoComp == [stage |-> "none"]

IdleCall ==
    [pc |-> "idle", op |-> "none", self |-> 0, idx |-> 0, value |-> 0,
     inplace |-> FALSE, new |-> NoLoc, yielded |-> FALSE, warned |-> 0,
     copied |-> 0, committed |-> 0, type |-> "none"]

(* The value a call returned: val, the descriptor it carries, and the path  *)
(* below the attribute at which val was read.                               *)
NoResult == [tag |-> "none", val |-> <<>>, view_args |-> None, keys |-> <<>>]

(* No call is in progress: the next call may begin *)
Quiescent == call.pc = "idle"

(* The call in the frame has returned or raised *)
Returned == call.pc \in {"done", "raised"}

NextLoc == Cardinality(DOMAIN heap)

NumCopies == NextLoc - (NumInst + 1)

Enter(op, o, idx, value, inplace) ==
    [IdleCall EXCEPT !.op = op, !.self = o, !.idx = idx, !.value = value,
                     !.inplace = inplace]

(* The path of instance o when every instance is built over attribute f:   *)
(* under uns the instances take the nested paths and the top level in turn, *)
(* under obsm the two sparse layouts in turn.                               *)
FamilyPath(f, o) ==
    CASE f = "uns" ->
           <<"uns", CASE o % 3 = 1 -> <<"a", "b">>
                      [] o % 3 = 2 -> <<>>
                      [] o % 3 = 0 -> <<"b", "a">>>>
      [] f = "obsm" -> <<"obsm", IF o % 2 = 1 THEN <<"r">> ELSE <<"c">>>>
      [] OTHER -> <<f, <<>>>>

InstChoices(f, o) ==
    {ViewInstance(r, FamilyPath(f, o), Upstream) : r \in Roots}
        \cup {PlainInstance(FamilyPath(f, o), o)}

(* Roots are named in the order in which instances first refer to them *)
RootsInOrder(f) ==
    \A o \in Inst :
       f[o].view_args # None =>
          \A r \in 1..(f[o].view_args.parent - 1) :
             \E q \in 1..(o - 1) :
                f[q].view_args # None /\ f[q].view_args.parent = r

(* Every root starts as a view of the upstream AnnData (location Upstream); *)
(* location o is the storage owned by instance o when it is not a view.     *)
Init ==
    /\ heap = [l \in 0..NumInst |-> InitialData]
    /\ roots = [r \in Roots |->
                  [ref |-> Upstream, is_view |-> TRUE, adata_ref |-> Upstream]]
    /\ \E f \in {"X", "obs", "uns", "obsm"} :
          inst \in {g \in [Inst -> UNION {InstChoices(f, o) : o \in Inst}] :
                      /\ \A o \in Inst : g[o] \in InstChoices(f, o)
                      /\ RootsInOrder(g)}
    /\ call = IdleCall
    /\ result = NoResult
    /\ ncalls = 0
    /\ comp = NoComp

----------------------------------------------------------------------------
(* The root's own operations (anndata/_core/anndata.py) *)

(* adata_view.copy(): a full independent copy, in fresh storage *)
RootCopy(h, r, loc) ==
    [l \in (DOMAIN h) \cup {loc} |-> IF l = loc THEN h[roots[r].ref] ELSE h[l]]

(* adata_view._init_as_actual(new): adopt new's state, stop being a view *)
InitAsActual(rs, r, loc) ==
    [rs EXCEPT ![r] = [ref |-> loc, is_view |-> FALSE, adata_ref |-> NoLoc]]

----------------------------------------------------------------------------
(* _SetItemMixin.__setitem__ *)

(* line 25-26: not a view, the native assignment on the instance itself *)
SetItemNative(o, idx, value) ==
    /\ Quiescent
    /\ ncalls < MaxCalls
    /\ inst[o].view_args = None
    /\ idx \in IdxChoices(inst[o].cls)
    /\ LET at == inst[o].at
           c == Contents(o)
       IN IF NativeCanSetItem(inst[o].cls, c, idx)
          THEN /\ heap' = [heap EXCEPT ![at.loc] =
                     SetAttr(@, at.attrname,
                             Replace(GetAttr(@, at.attrname), at.keys,
                                     NativeSetItem(inst[o].cls, c, idx, value)))]
               /\ call' = [Enter("setitem", o, idx, value, FALSE)
                              EXCEPT !.pc = "done"]
          ELSE /\ heap' = heap
               /\ call' = [Enter("setitem", o, idx, value, FALSE)
                              EXCEPT !.pc = "raised"]
    /\ result' = NoResult
    /\ UNCHANGED <<roots, inst, comp>>
    /\ ncalls' = ncalls + 1

(* Variant: the descriptor is not tested, every instance is intercepted *)
SetItemWarn_Always(o, idx, value) ==
    /\ Quiescent
    /\ ncalls < MaxCalls
    /\ idx \in IdxChoices(inst[o].cls)
    /\ call' = [Enter("setitem", o, idx, value, FALSE)
                   EXCEPT !.pc = "update", !.warned = 1]
    /\ result' = NoResult
    /\ UNCHANGED <<heap, roots, inst, comp>>
    /\ ncalls' = ncalls + 1

(* line 27-34: a view warns, then enters _update *)
SetItemWarn(o, idx, value) ==
    /\ Quiescent
    /\ ncalls < MaxCalls
    /\ inst[o].view_args # None
    /\ idx \in IdxChoices(inst[o].cls)
    /\ call' = [Enter("setitem", o, idx, value, FALSE)
                   EXCEPT !.pc = "update", !.warned = 1]
    /\ result' = NoResult
    /\ UNCHANGED <<heap, roots, inst, comp>>
    /\ ncalls' = ncalls + 1

----------------------------------------------------------------------------
(* DataFrameView.drop *)

(* Variant: the labels are dropped from the instance, not from a copy of it *)
DropCopy_OnSelf(o, label) ==
    /\ Quiescent
    /\ inst[o].cls = "DataFrameView"
    /\ label \in Keys
    /\ NativeCanDrop(Contents(o), label)
    /\ LET at == inst[o].at
       IN heap' = [heap EXCEPT ![at.loc] =
                     SetAttr(@, at.attrname,
                             Replace(GetAttr(@, at.attrname), at.keys,
                                     NativeDrop(Contents(o), label)))]
    /\ result' = [tag |-> "table", val |-> NativeDrop(Contents(o), label),
                  view_args |-> None, keys |-> inst[o].at.keys]
    /\ call' = [Enter("drop", o, label, 0, FALSE) EXCEPT !.pc = "done"]
    /\ UNCHANGED <<roots, inst, ncalls, comp>>

(* line 117-118: self.copy().drop(...), a plain table *)
DropCopy(o, label) ==
    /\ Quiescent
    /\ inst[o].cls = "DataFrameView"
    /\ label \in Keys
    /\ IF NativeCanDrop(Contents(o), label)
       THEN /\ result' = [tag |-> "table",
                          val |-> NativeDrop(Contents(o), label),
                          view_args |-> None,
                          keys |-> inst[o].at.keys]
            /\ call' = [Enter("drop", o, label, 0, FALSE) EXCEPT !.pc = "done"]
       ELSE /\ result' = NoResult
            /\ call' = [Enter("drop", o, label, 0, FALSE)
                           EXCEPT !.pc = "raised"]
    /\ UNCHANGED <<heap, roots, inst, ncalls, comp>>

(* line 119: inplace=True enters _update directly *)
DropInplace(o, label) ==
    /\ Quiescent
    /\ ncalls < MaxCalls
    /\ inst[o].cls = "DataFrameView"
    /\ label \in Keys
    /\ call' = [Enter("drop", o, label, 0, TRUE) EXCEPT !.pc = "update"]
    /\ result' = NoResult
    /\ UNCHANGED <<heap, roots, inst, comp>>
    /\ ncalls' = ncalls + 1

----------------------------------------------------------------------------
(* _SetItemMixin._update, a generator-based context manager *)

(* line 39: unpacking a None descriptor is a TypeError *)
UpdateNoDescriptor ==
    /\ call.pc = "update"
    /\ inst[call.self].view_args = None
    /\ call' = [call EXCEPT !.pc = "raised"]
    /\ UNCHANGED <<heap, roots, inst, result, ncalls, comp>>

(* Variant: the root itself is handed on, no copy is made *)
UpdateCopy_NoCopy ==
    /\ call.pc = "update"
    /\ inst[call.self].view_args # None
    /\ call' = [call EXCEPT !.pc = "copied",
                            !.new = roots[inst[call.self].view_args.parent].ref]
    /\ UNCHANGED <<heap, roots, inst, result, ncalls, comp>>

(* line 39-40: new = adata_view.copy() *)
UpdateCopy ==
    /\ call.pc = "update"
    /\ inst[call.self].view_args # None
    /\ heap' = RootCopy(heap, inst[call.self].view_args.parent, NextLoc)
    /\ call' = [call EXCEPT !.pc = "copied", !.new = NextLoc,
                            !.copied = @ + 1]
    /\ UNCHANGED <<roots, inst, result, ncalls, comp>>

(* Variant: a path that cannot be resolved still ends in the commit, as if  *)
(* the whole body were guarded by a finally                                 *)
UpdateResolve_CommitOnFail ==
    /\ call.pc = "copied"
    /\ LET va == inst[call.self].view_args
       IN IF CanReduce(GetAttr(heap[call.new], va.attrname), va.keys)
          THEN /\ call' = [call EXCEPT !.pc = "yielded", !.yielded = TRUE]
               /\ roots' = roots
          ELSE /\ call' = [call EXCEPT !.pc = "raised", !.committed = @ + 1]
               /\ roots' = [roots EXCEPT ![va.parent] =
                               [ref |-> call.new, is_view |-> FALSE,
                                adata_ref |-> NoLoc]]
    /\ UNCHANGED <<heap, inst, result, ncalls, comp>>

(* line 41-42: attr = getattr(new, attr_name); container = reduce(...) *)
UpdateResolve ==
    /\ call.pc = "copied"
    /\ LET va == inst[call.self].view_args
       IN IF CanReduce(GetAttr(heap[call.new], va.attrname), va.keys)
          THEN call' = [call EXCEPT !.pc = "yielded", !.yielded = TRUE]
          ELSE call' = [call EXCEPT !.pc = "raised"]
    /\ UNCHANGED <<heap, roots, inst, result, ncalls, comp>>

(* The container the with-block receives, and the attribute data after the   *)
(* with-block has replaced it by c.                                          *)
Container == 
    LET va == inst[call.self].view_args
    IN Reduce(GetAttr(heap[call.new], va.attrname), va.keys)

(* Variant: the mutation lands on the storage of the instance itself *)
Mutated_Self(c) ==
    LET at == inst[call.self].at
    IN [heap EXCEPT ![at.loc] =
          SetAttr(@, at.attrname, Replace(GetAttr(@, at.attrname), at.keys, c))]

Mutated(c) ==
    LET va == inst[call.self].view_args
    IN [heap EXCEPT ![call.new] =
          SetAttr(@, va.attrname, Replace(GetAttr(@, va.attrname), va.keys, c))]

(* line 35: container[idx] = value inside the with-block.  An exception is   *)
(* thrown into the generator at the yield, which has no try/finally.         *)
SetItemBody ==
    /\ call.pc = "yielded"
    /\ call.op = "setitem"
    /\ IF NativeCanSetItem(inst[call.self].cls, Container, call.idx)
       THEN /\ heap' = Mutated(NativeSetItem(inst[call.self].cls, Container,
                                             call.idx, call.value))
            /\ call' = [call EXCEPT !.pc = "resumed"]
       ELSE /\ heap' = heap
            /\ call' = [call EXCEPT !.pc = "raised"]
    /\ UNCHANGED <<roots, inst, result, ncalls, comp>>

(* line 120: df.drop(labels, inplace=True) inside the with-block *)
DropBody ==
    /\ call.pc = "yielded"
    /\ call.op = "drop"
    /\ IF NativeCanDrop(Container, call.idx)
       THEN /\ heap' = Mutated(NativeDrop(Container, call.idx))
            /\ call' = [call EXCEPT !.pc = "resumed"]
       ELSE /\ heap' = heap
            /\ call' = [call EXCEPT !.pc = "raised"]
    /\ UNCHANGED <<roots, inst, result, ncalls, comp>>

(* Variant: the generator ends without handing the copy to the root *)
UpdateCommit_NoCommit ==
    /\ call.pc = "resumed"
    /\ call' = [call EXCEPT !.pc = "done"]
    /\ UNCHANGED <<heap, roots, inst, result, ncalls, comp>>

(* Variant: the instance rebinds itself to the container in the copy *)
UpdateCommit_Rebind ==
    /\ call.pc = "resumed"
    /\ roots' = InitAsActual(roots, inst[call.self].view_args.parent, call.new)
    /\ inst' = [inst EXCEPT ![call.self].at.loc = call.new]
    /\ call' = [call EXCEPT !.pc = "done", !.committed = @ + 1]
    /\ UNCHANGED <<heap, result, ncalls, comp>>

(* line 44: adata_view._init_as_actual(new), reached after a normal exit *)
UpdateCommit ==
    /\ call.pc = "resumed"
    /\ roots' = InitAsActual(roots, inst[call.self].view_args.parent, call.new)
    /\ call' = [call EXCEPT !.pc = "done", !.committed = @ + 1]
    /\ UNCHANGED <<heap, inst, result, ncalls, comp>>

----------------------------------------------------------------------------
(* copy.deepcopy(instance) *)

(* line 60-62, _ViewMixin.__deepcopy__: unpacking a None descriptor and     *)
(* getattr on a None _adata_ref both raise; otherwise the whole attribute   *)
(* of the AnnData the root is a view of is deep-copied.                     *)
DeepCopyViewMixin(o) ==
    /\ Quiescent
    /\ inst[o].cls \in ViewMixinClasses
    /\ LET va == inst[o].view_args
       IN IF va = None \/ roots[va.parent].adata_ref = NoLoc
          THEN /\ result' = NoResult
               /\ call' = [Enter("deepcopy", o, 0, 0, FALSE)
                              EXCEPT !.pc = "raised"]
          ELSE /\ result' = [tag |-> "deepcopy",
                             val |-> GetAttr(heap[roots[va.parent].adata_ref],
                                             va.attrname),
                             view_args |-> None,
                             keys |-> <<>>]
               /\ call' = [Enter("deepcopy", o, 0, 0, FALSE)
                              EXCEPT !.pc = "done"]
    /\ UNCHANGED <<heap, roots, inst, ncalls, comp>>

(* ArrayView has no __deepcopy__ of its own: ndarray's copies the buffer    *)
(* into a new instance of the same class, and __array_finalize__ (line      *)
(* 78-80) hands it the descriptor of the instance copied.                   *)
DeepCopyArray(o) ==
    /\ Quiescent
    /\ inst[o].cls = "ArrayView"
    /\ result' = [tag |-> "deepcopy", val |-> Contents(o),
                  view_args |-> inst[o].view_args, keys |-> inst[o].at.keys]
    /\ call' = [Enter("deepcopy", o, 0, 0, FALSE) EXCEPT !.pc = "done"]
    /\ UNCHANGED <<heap, roots, inst, ncalls, comp>>

(* ArrayView.__array_finalize__ (line 78-80): the array made out of obj     *)
(* takes the descriptor of obj, None when obj has none.                     *)
ArrayFinalize(obj) == obj.view_args

(* s = V[i:] for an array view V: ndarray's subsetting makes a new instance *)
(* of V's class over V's buffer from position i on and finalizes it with    *)
(* obj = V. The handle s, which named an instance that is not a view, names *)
(* the new array from now on.                                               *)
GetItemSlice(v, s, i) ==
    /\ Quiescent
    /\ v # s
    /\ inst[v].cls = "ArrayView"
    /\ inst[v].view_args # None
    /\ inst[s].view_args = None
    /\ inst[v].at.offset + i < ArrLen
    /\ inst' = [inst EXCEPT ![s] =
                  [cls |-> inst[v].cls,
                   view_args |-> ArrayFinalize(inst[v]),
                   at |-> [inst[v].at EXCEPT !.offset = @ + i]]]
    /\ UNCHANGED <<heap, roots, call, result, ncalls, comp>>

(* line 128-150: the types as_view has an implementation registered for    *)
(* that builds a view, and the view class each builds                       *)
Registry ==
    [ndarray |-> "ArrayView", DataFrame |-> "DataFrameView",
     csr_matrix |-> "SparseCSRView", csc_matrix |-> "SparseCSCView",
     dict |-> "DictView"]

(* The types of the containers handed to as_view: the registered ones, and  *)
(* a list and a sparse matrix in coordinate layout, which are not           *)
ContainerTypes == (DOMAIN Registry) \cup {"ZappyArray", "list", "coo_matrix"}

(* Variant: a container of a type not registered is wrapped as an array *)
as_view_WrapAny(t, view_args) ==
    CASE t \in DOMAIN Registry \cup {"list", "coo_matrix"} ->
           [tag |-> "view",
            val |-> IF t \in DOMAIN Registry THEN Registry[t] ELSE "ArrayView",
            view_args |-> view_args, keys |-> view_args.keys]
      [] t = "ZappyArray" ->
           [tag |-> "unchanged", val |-> t, view_args |-> None, keys |-> <<>>]

(* line 123-157: as_view(obj, view_args) for obj of type t. The view        *)
(* classes keep ElementRef(parent, attrname, keys) of the descriptor given, *)
(* or None (line 54-56, 72-75).                                             *)
as_view(t, view_args) ==
    CASE t \in DOMAIN Registry ->
           [tag |-> "view", val |-> Registry[t],
            view_args |-> view_args, keys |-> view_args.keys]
      [] t = "ZappyArray" ->
           [tag |-> "unchanged", val |-> t, view_args |-> None, keys |-> <<>>]
      [] OTHER ->
           [tag |-> "NotImplementedError", val |-> t,
            view_args |-> None, keys |-> <<>>]

(* The descriptor handed to as_view: that of instance o, or None *)
Descriptor(o) == IF o \in Inst THEN inst[o].view_args ELSE None

(* as_view is called on a container of type t with the descriptor of o *)
AsView(t, o) ==
    /\ Quiescent
    /\ result' = as_view(t, Descriptor(o))
    /\ call' = [Enter("as_view", o, 0, 0, FALSE) EXCEPT
                  !.type = t,
                  !.pc = IF result'.tag = "NotImplementedError"
                         THEN "raised" ELSE "done"]
    /\ UNCHANGED <<heap, roots, inst, ncalls, comp>>

----------------------------------------------------------------------------
(* Control is back with the caller and the frame is gone *)
Return ==
    /\ Returned
    /\ call' = IdleCall
    /\ result' = NoResult
    /\ UNCHANGED <<heap, roots, inst, ncalls, comp>>

Next ==
    \/ \E o \in Inst :
          \E idx \in IdxChoices(inst[o].cls), v \in ValChoices(inst[o].at) :
             SetItemNative(o, idx, v)
    \/ \E o \in Inst :
          \E idx \in IdxChoices(inst[o].cls), v \in ValChoices(inst[o].at) :
             SetItemWarn(o, idx, v)
    \/ \E o \in Inst, label \in Keys : DropCopy(o, label)
    \/ \E o \in Inst, label \in Keys : DropInplace(o, label)
    \/ UpdateNoDescriptor
    \/ UpdateCopy
    \/ UpdateResolve
    \/ SetItemBody
    \/ DropBody
    \/ UpdateCommit
    \/ \E o \in Inst : DeepCopyViewMixin(o)
    \/ \E o \in Inst : DeepCopyArray(o)
    \/ \E t \in ContainerTypes, o \in Inst \cup {0} : AsView(t, o)
    \/ \E v \in Inst, s \in Inst, i \in 0..(ArrLen - 1) : GetItemSlice(v, s, i)
    \/ Return

Spec == Init /\ [][Next]_vars

----------------------------------------------------------------------------
(* Index composition: _resolve_idx and the Python built-ins it is made of.  *)
(* An optional integer is <<>> for None and <<n>> for n; an index is a      *)
(* record whose field kind tells its Python type: a slice of three optional *)
(* integers, an integer, an array of integers or an array of booleans; a    *)
(* range is a record of three integers; a sequence holds position 0 at      *)
(* index 1.                                                                 *)

MaxL == 3
StepChoices == {-2, -1, 1, 2}

PyNone == <<>>

Some(n) == <<n>>

Optionals(S) == {PyNone} \cup {Some(n) : n \in S}

Slice(start, stop, step) ==
    [kind |-> "slice", start |-> start, stop |-> stop, step |-> step]

(* An integer index *)
IntScalar(n) == [kind |-> "int", n |-> n]

(* An array of integer dtype *)
IntArray(items) == [kind |-> "ints", items |-> items]

(* An array of boolean dtype *)
BoolArray(items) == [kind |-> "mask", items |-> items]

(* Indexing an array out of its bounds, or by a mask of another length *)
IndexError == [kind |-> "IndexError"]

Range(start, stop, step) == [start |-> start, stop |-> stop, step |-> step]

Min(a, b) == IF a < b THEN a ELSE b

Max(a, b) == IF a > b THEN a ELSE b

(* slice.indices(length): the step defaults to 1, a negative start or stop  *)
(* counts from the end, and both are clamped to the bounds of the walk.     *)
SliceIndices(s, length) ==
    LET step == IF s.step = PyNone THEN 1 ELSE s.step[1]
        lower == IF step < 0 THEN -1 ELSE 0
        upper == IF step < 0 THEN length - 1 ELSE length
        Clamp(v) == IF v < 0 THEN Max(v + length, lower) ELSE Min(v, upper)
        start == IF s.start = PyNone
                 THEN (IF step < 0 THEN upper ELSE lower)
                 ELSE Clamp(s.start[1])
        stop == IF s.stop = PyNone
                THEN (IF step < 0 THEN lower ELSE upper)
                ELSE Clamp(s.stop[1])
    IN Range(start, stop, step)

(* len(range(start, stop, step)) *)
RangeLen(r) ==
    IF r.step > 0
    THEN (IF r.start < r.stop THEN (r.stop - r.start - 1) \div r.step + 1 ELSE 0)
    ELSE (IF r.stop < r.start
          THEN (r.start - r.stop - 1) \div (0 - r.step) + 1 ELSE 0)

(* list(range(start, stop, step)) *)
RangeItems(r) == [i \in 1..RangeLen(r) |-> r.start + (i - 1) * r.step]

(* range(...)[s] for a slice s: again a range *)
RangeGetSlice(r, s) ==
    LET sub == SliceIndices(s, RangeLen(r))
    IN Range(r.start + sub.start * r.step,
             r.start + sub.stop * r.step,
             r.step * sub.step)

(* seq[s] for a slice s *)
SeqGetSlice(seq, s) ==
    LET at == RangeItems(SliceIndices(s, Len(seq)))
    IN [i \in 1..Len(at) |-> seq[at[i] + 1]]

(* line 171: is_bool_dtype(old) *)
is_bool_dtype(a) == a.kind = "mask"

(* line 172: np.where(old)[0], the positions a mask holds True at, in       *)
(* ascending order                                                          *)
RECURSIVE Where(_)
Where(m) ==
    IF Len(m) = 0 THEN <<>>
    ELSE LET front == Where(SubSeq(m, 1, Len(m) - 1))
         IN IF m[Len(m)] THEN Append(front, Len(m) - 1) ELSE front

(* A position of an array of the given length, counted from the end when    *)
(* negative                                                                 *)
InBounds(n, length) == 0 - length <= n /\ n < length

NormPos(n, length) == IF n < 0 THEN n + length ELSE n

(* items[i] for a one-dimensional array holding items: an integer gives the *)
(* element, an array of integers the elements at its positions, a mask of   *)
(* the array's length the elements it holds True at, a slice the elements   *)
(* of its walk; a position out of bounds or a mask of another length is an  *)
(* IndexError.                                                              *)
NdGetItem(items, i) ==
    LET n == Len(items)
    IN CASE i.kind = "int" ->
              IF InBounds(i.n, n)
              THEN IntScalar(items[NormPos(i.n, n) + 1])
              ELSE IndexError
         [] i.kind = "ints" ->
              IF \A k \in 1..Len(i.items) : InBounds(i.items[k], n)
              THEN IntArray([k \in 1..Len(i.items) |->
                               items[NormPos(i.items[k], n) + 1]])
              ELSE IndexError
         [] i.kind = "mask" ->
              IF Len(i.items) = n
              THEN LET w == Where(i.items)
                   IN IntArray([k \in 1..Len(w) |-> items[w[k] + 1]])
              ELSE IndexError
         [] i.kind = "slice" -> IntArray(SeqGetSlice(items, i))

(* Variant: an empty result keeps the stop computed *)
_resolve_idx_slice_slice_NoCollapse(old, new, l) ==
    LET r == RangeGetSlice(SliceIndices(old, l), new)
    IN Slice(Some(r.start),
             IF r.stop < 0 THEN PyNone ELSE Some(r.stop),
             Some(r.step))

(* Variant: a negative stop is kept as it is *)
_resolve_idx_slice_slice_KeepStop(old, new, l) ==
    LET r == RangeGetSlice(SliceIndices(old, l), new)
    IN Slice(Some(r.start),
             IF RangeLen(r) = 0 THEN Some(r.start) ELSE Some(r.stop),
             Some(r.step))

(* line 191-199 *)
_resolve_idx_slice_slice(old, new, l) ==
    LET r == RangeGetSlice(SliceIndices(old, l), new)
    IN Slice(Some(r.start),
             IF RangeLen(r) = 0 THEN Some(r.start)
             ELSE IF r.stop < 0 THEN PyNone
             ELSE Some(r.stop),
             Some(r.step))

(* Variant: the isinstance test fails, a slice is treated as any index *)
_resolve_idx_slice_AlwaysArange(old, new, l) ==
    NdGetItem(RangeItems(SliceIndices(old, l)), new)

(* line 183-188 *)
_resolve_idx_slice(old, new, l) ==
    IF new.kind = "slice"
    THEN _resolve_idx_slice_slice(old, new, l)
    ELSE NdGetItem(RangeItems(SliceIndices(old, l)), new)

(* Variant: a mask is indexed as it is, as the integers 0 and 1 *)
_resolve_idx_ndarray_NoWhere(old, new, l) ==
    NdGetItem(IF is_bool_dtype(old)
              THEN [k \in 1..Len(old.items) |-> IF old.items[k] THEN 1 ELSE 0]
              ELSE old.items,
              new)

(* line 170-174 *)
_resolve_idx_ndarray(old, new, l) ==
    NdGetItem(IF is_bool_dtype(old) THEN Where(old.items) ELSE old.items, new)

(* line 177-180 *)
_resolve_idx_scalar(old, new, l) == NdGetItem(<<old.n>>, new)

(* line 165-188: singledispatch on the type of old. The indices composed    *)
(* are of the registered types, so the default old[new] of line 167 is the  *)
(* implementation of none of them.                                          *)
_resolve_idx(old, new, l) ==
    CASE old.kind = "slice" -> _resolve_idx_slice(old, new, l)
      [] old.kind \in {"ints", "mask"} -> _resolve_idx_ndarray(old, new, l)
      [] old.kind = "int" -> _resolve_idx_scalar(old, new, l)

(* The slices taken of an axis of n positions: every start and stop from    *)
(* -(n + 1), below the first position, to n + 1, above the last, and None;  *)
(* slice.indices clamps what lies further out to the same bounds.           *)
Slices(n) ==
    {Slice(a, b, c) : a \in Optionals((0 - (n + 1))..(n + 1)),
                      b \in Optionals((0 - (n + 1))..(n + 1)),
                      c \in Optionals(StepChoices)}

(* How many positions of an axis of length l the index old selects *)
NumSelected(old, l) ==
    CASE old.kind = "slice" -> RangeLen(SliceIndices(old, l))
      [] old.kind = "mask" -> Len(Where(old.items))
      [] old.kind = "ints" -> Len(old.items)
      [] old.kind = "int" -> 1

(* An axis of length 10 subset by slice(2, 8, 2), to be subset again by     *)
(* slice(5, 5)                                                              *)
ExampleSubset ==
    [stage |-> "subset", l |-> 10, old |-> Slice(Some(2), Some(8), Some(2))]

ExampleNew == Slice(Some(5), Some(5), PyNone)

(* An AnnData axis of length l was subset by old *)
InitIdx ==
    /\ heap = [l \in 0..NumInst |-> InitialData]
    /\ roots = [r \in Roots |->
                  [ref |-> Upstream, is_view |-> TRUE, adata_ref |-> Upstream]]
    /\ inst = [o \in Inst |-> PlainInstance(FamilyPath("X", o), o)]
    /\ call = IdleCall
    /\ result = NoResult
    /\ ncalls = 0
    /\ \/ \E l \in 0..MaxL :
             \E old \in Slices(l) :
                comp = [stage |-> "subset", l |-> l, old |-> old]
       \/ comp = ExampleSubset

(* line 160-162: the view is subset again, by a slice new taken of its      *)
(* positions, and the two indices of the axis are composed                  *)
ResolveSliceSlice(new) ==
    /\ comp.stage = "subset"
    /\ comp' = [stage |-> "resolved", l |-> comp.l, old |-> comp.old,
                new |-> new,
                idx |-> _resolve_idx(comp.old, new, comp.l)]
    /\ UNCHANGED <<heap, roots, inst, call, result, ncalls>>

NextIdx ==
    \E new \in Slices(NumSelected(comp.old, comp.l)) \cup {ExampleNew} :
       ResolveSliceSlice(new)

SpecIdx == InitIdx /\ [][NextIdx]_vars

(* Composition with an index that is no slice. The arrays composed hold at  *)
(* most two positions, the masks are of every length met.                   *)
ArraysOver(S) ==
    {IntArray(<<>>)} \cup {IntArray(<<a>>) : a \in S}
                    \cup {IntArray(<<a, b>>) : a \in S, b \in S}

Masks(n) == {BoolArray(m) : m \in [1..n -> BOOLEAN]}

(* What may have subset an axis of length l: a mask of length l, positions  *)
(* of the axis, counted from either end, or a slice                         *)
OldChoices(l) ==
    Masks(l) \cup ArraysOver((0 - l)..(l - 1))
             \cup {IntScalar(a) : a \in (0 - l)..(l - 1)}
             \cup Slices(l)

(* What the view of n positions may be subset by: positions of the view or  *)
(* one beyond them, a mask of length n or one longer, or a slice            *)
NewChoices(n) ==
    {IntScalar(a) : a \in (0 - (n + 1))..n}
       \cup ArraysOver((0 - (n + 1))..n)
       \cup Masks(n) \cup Masks(n + 1)
       \cup Slices(n)

(* An axis of length 5 subset by the mask [T, F, T, T, F] *)
ExampleMaskSubset ==
    [stage |-> "subset", l |-> 5,
     old |-> BoolArray(<<TRUE, FALSE, TRUE, TRUE, FALSE>>)]

InitIdxMixed ==
    /\ heap = [l \in 0..NumInst |-> InitialData]
    /\ roots = [r \in Roots |->
                  [ref |-> Upstream, is_view |-> TRUE, adata_ref |-> Upstream]]
    /\ inst = [o \in Inst |-> PlainInstance(FamilyPath("X", o), o)]
    /\ call = IdleCall
    /\ result = NoResult
    /\ ncalls = 0
    /\ \/ \E l \in 0..MaxL :
             \E old \in OldChoices(l) :
                comp = [stage |-> "subset", l |-> l, old |-> old]
       \/ comp = ExampleMaskSubset

(* line 160-162: the view is subset again by new, one of the two indices    *)
(* being no slice                                                           *)
ResolveMixed(new) ==
    /\ comp.stage = "subset"
    /\ ~(comp.old.kind = "slice" /\ new.kind = "slice")
    /\ comp' = [stage |-> "resolved", l |-> comp.l, old |-> comp.old,
                new |-> new,
                idx |-> _resolve_idx(comp.old, new, comp.l)]
    /\ UNCHANGED <<heap, roots, inst, call, result, ncalls>>

NextIdxMixed ==
    \E new \in NewChoices(NumSelected(comp.old, comp.l)) : ResolveMixed(new)

SpecIdxMixed == InitIdxMixed /\ [][NextIdxMixed]_vars

----------------------------------------------------------------------------
(* Properties *)

(* The root a view's descriptor names *)
ParentOf(o) == inst[o].view_args.parent

(* A call of the given kind on an instance that is a view *)
OnView(c, op) ==
    /\ c.op = op
    /\ c.self \in Inst
    /\ inst[c.self].view_args # None

(* Storage some root or some instance currently reads from *)
LiveLocs == {roots[r].ref : r \in Roots} \cup {inst[o].at.loc : o \in Inst}

(* Indexing by the keys of a path, first key first *)
At(d, keys) ==
    CASE Len(keys) = 0 -> d
      [] Len(keys) = 1 -> d[keys[1]]
      [] Len(keys) = 2 -> d[keys[1]][keys[2]]

CanAt(d, keys) ==
    CASE Len(keys) = 0 -> TRUE
      [] Len(keys) = 1 -> keys[1] \in DOMAIN d
      [] Len(keys) = 2 -> keys[1] \in DOMAIN d /\ keys[2] \in DOMAIN d[keys[1]]

IsPrefix(k1, k2) ==
    /\ Len(k1) <= Len(k2)
    /\ \A i \in 1..Len(k1) : k1[i] = k2[i]

(* C1, as stated: during an item assignment on a view V of root R no step   *)
(* changes what is read through any root, R included, or through any other  *)
(* instance.                                                                *)
C1_RootNeverChanges ==
    [][OnView(call', "setitem") =>
         /\ \A r \in Roots : heap'[roots'[r].ref] = heap[roots[r].ref]
         /\ \A o \in Inst \ {call'.self} :
               ContentsAt(heap', inst'[o].at) = ContentsAt(heap, inst[o].at)]_vars

(* C1, amended: during an item assignment on a view V of root R no step     *)
(* changes the data held in any storage a root or an instance was reading   *)
(* from, what is read through any other root, or what is read through any   *)
(* other instance; only R itself comes to read the mutated copy.            *)
C1_Isolation ==
    [][OnView(call', "setitem") =>
         /\ \A l \in LiveLocs : heap'[l] = heap[l]
         /\ \A r \in Roots \ {ParentOf(call'.self)} :
               /\ roots'[r] = roots[r]
               /\ heap'[roots'[r].ref] = heap[roots[r].ref]
         /\ \A o \in Inst \ {call'.self} :
               ContentsAt(heap', inst'[o].at) = ContentsAt(heap, inst[o].at)]_vars

(* An assignment through V was committed to R while another view of the     *)
(* same container of R still reads the old values.                          *)
C1_Witness ==
    /\ call.pc = "done"
    /\ OnView(call, "setitem")
    /\ call.committed = 1
    /\ \E o \in Inst \ {call.self} :
          /\ inst[o].view_args = inst[call.self].view_args
          /\ inst[o].at.offset = 0
          /\ Contents(o) # At(GetAttr(heap[roots[ParentOf(o)].ref],
                                      inst[o].view_args.attrname),
                              inst[o].view_args.keys)

(* C2: when the assignment of an intercepted __setitem__ is applied, the    *)
(* root has been copied, the copy is storage nothing else reads from, and   *)
(* the step writes only the container reached in the copy by the attribute  *)
(* name and then the path keys, first key first; no step of the call writes *)
(* any other storage.                                                       *)
C2_CopyThenAssign ==
    [][OnView(call', "setitem") =>
         /\ \A l \in (DOMAIN heap) \ {call'.new} : heap'[l] = heap[l]
         /\ (call.pc = "yielded" /\ call'.pc = "resumed") =>
              LET va == inst[call.self].view_args
                  old == GetAttr(heap[call.new], va.attrname)
                  new == GetAttr(heap'[call.new], va.attrname)
              IN /\ call.copied = 1
                 /\ call.new \notin LiveLocs
                 /\ \A p \in Paths :
                       p[1] # va.attrname =>
                          GetAttr(heap'[call.new], p[1])
                             = GetAttr(heap[call.new], p[1])
                 /\ \A p \in Paths :
                       (/\ p[1] = va.attrname
                        /\ ~IsPrefix(p[2], va.keys)
                        /\ ~IsPrefix(va.keys, p[2])
                        /\ CanAt(old, p[2])) => At(new, p[2]) = At(old, p[2])
                 /\ At(new, va.keys)
                       = NativeSetItem(inst[call.self].cls, At(old, va.keys),
                                       call.idx, call.value)]_vars

(* The assignment has just been applied at a path of two keys, in a copy    *)
(* that differs from the data the root still reads.                         *)
C2_Witness ==
    /\ call.pc = "resumed"
    /\ OnView(call, "setitem")
    /\ Len(inst[call.self].view_args.keys) = 2
    /\ heap[call.new] # heap[roots[ParentOf(call.self)].ref]

(* The sequence 0, 1, ..., l-1: slicing selects by position, so what holds  *)
(* of it holds of every sequence of length l.                               *)
Base(l) == [i \in 1..l |-> i - 1]

(* C3: for every axis length l, old slice and new slice,                    *)
(* base[old][new] = base[_resolve_idx(old, new, l)] on a base of length l.  *)
C3_SliceSliceComposition ==
    comp.stage = "resolved" =>
       SeqGetSlice(SeqGetSlice(Base(comp.l), comp.old), comp.new)
          = SeqGetSlice(Base(comp.l), comp.idx)

(* A walk backwards down to position 0 was composed: the stop computed is   *)
(* negative, and the composed slice selects more than one position.         *)
C3_Witness ==
    /\ comp.stage = "resolved"
    /\ comp.l = MaxL
    /\ comp.idx.stop = PyNone
    /\ comp.idx.step = Some(-2)
    /\ comp.new.step = Some(2)
    /\ Len(SeqGetSlice(Base(comp.l), comp.idx)) = 2

(* C4, as stated: when the mutation applied to the yielded container        *)
(* raises, the copy has been committed as the root's backing state by the   *)
(* time the error reaches the caller.                                       *)
C4_CommitOnEveryExit ==
    (call.pc = "raised" /\ call.yielded) =>
        /\ call.committed = 1
        /\ roots[ParentOf(call.self)].ref = call.new

(* C5, as stated: every intercepted mutating call on a view, item           *)
(* assignment or drop(inplace=True), has emitted the warning exactly once   *)
(* by the time the root is copied, and never more than once.                *)
C5_WarnOnceBeforeCopy ==
    (call.op \in {"setitem", "drop"} /\ call.self \in Inst
        /\ inst[call.self].view_args # None
        /\ (call.op = "drop" => call.inplace)) =>
       /\ call.warned <= 1
       /\ call.copied >= 1 => call.warned = 1
       /\ call.pc \in {"done", "raised"} => call.warned = 1

(* C6: an item assignment on an instance with no descriptor is one native   *)
(* assignment on the storage of that instance: no warning, no copy, no      *)
(* commit, no root and no other storage changes.                            *)
C6_NativeOnNonView ==
    [][(Quiescent /\ call'.op = "setitem" /\ call'.self \in Inst
          /\ inst[call'.self].view_args = None) =>
         LET o == call'.self
             own == inst[o].at
         IN /\ call'.pc \in {"done", "raised"}
            /\ call'.warned = 0 /\ call'.copied = 0 /\ call'.committed = 0
            /\ roots' = roots
            /\ DOMAIN heap' = DOMAIN heap
            /\ \A l \in (DOMAIN heap) \ {own.loc} : heap'[l] = heap[l]
            /\ \A p \in Paths :
                  p[1] # own.attrname =>
                     GetAttr(heap'[own.loc], p[1]) = GetAttr(heap[own.loc], p[1])
            /\ call'.pc = "done" =>
                  ContentsAt(heap', own)
                     = NativeSetItem(inst[o].cls, Contents(o),
                                     call'.idx, call'.value)
            /\ call'.pc = "raised" => heap' = heap]_vars

(* A native assignment changed the storage of an instance with no           *)
(* descriptor while every root still reads the upstream data.               *)
C6_Witness ==
    /\ call.pc = "done"
    /\ call.op = "setitem"
    /\ inst[call.self].view_args = None
    /\ Contents(call.self)[call.idx] = call.value
    /\ heap[inst[call.self].at.loc] # InitialData
    /\ \A r \in Roots : roots[r].ref = Upstream

(* A mutating call that _update serves: on a view, item assignment or       *)
(* drop(inplace=True)                                                       *)
Intercepted(c) ==
    /\ c.self \in Inst
    /\ inst[c.self].view_args # None
    /\ \/ c.op = "setitem"
       \/ c.op = "drop" /\ c.inplace

(* C7: once a mutating call on a view of root R has returned, R reads from  *)
(* the mutated copy, the assigned value is found through R at the view's    *)
(* attribute and path, and R is not a view of anything.                     *)
C7_MaterializeOnce ==
    (call.pc = "done" /\ Intercepted(call)) =>
        LET va == inst[call.self].view_args
            R == roots[va.parent]
            attr == GetAttr(heap[R.ref], va.attrname)
        IN /\ R.ref = call.new
           /\ ~R.is_view
           /\ R.adata_ref = NoLoc
           /\ R.ref # Upstream
           /\ CanAt(attr, va.keys)
           /\ call.op = "setitem" =>
                 /\ call.idx \in DOMAIN At(attr, va.keys)
                 /\ At(attr, va.keys)[call.idx] = call.value
           /\ call.op = "drop" => call.idx \notin DOMAIN At(attr, va.keys)

(* An assignment through a sparse view under obsm has returned, made on a   *)
(* root that an earlier assignment through another view had materialized:   *)
(* the root reads both.                                                     *)
C7_Witness ==
    /\ call.pc = "done"
    /\ OnView(call, "setitem")
    /\ inst[call.self].cls = "SparseCSCView"
    /\ roots[ParentOf(call.self)].ref = call.new
    /\ heap[call.new].obsm["r"] # Zeros
    /\ heap[call.new].obsm["c"][call.idx] = call.value

(* C8: no step changes an instance that is a view: neither its descriptor   *)
(* nor what reading it returns, whatever calls are made on it.              *)
C8_ViewUntouched ==
    [][\A o \in Inst :
          inst[o].view_args # None =>
             /\ inst'[o] = inst[o]
             /\ ContentsAt(heap', inst'[o].at) = ContentsAt(heap, inst[o].at)]_vars

(* Two intercepted calls were made on the only view there is, the second    *)
(* has returned, and the view still reads the values it was built over.     *)
C8_Witness ==
    /\ call.pc = "done"
    /\ Intercepted(call)
    /\ NumCopies = 2
    /\ \A o \in Inst \ {call.self} : inst[o].view_args = None
    /\ Contents(call.self)
          = At(GetAttr(InitialData, inst[call.self].at.attrname),
               inst[call.self].at.keys)
    /\ Contents(call.self)
          # At(GetAttr(heap[roots[ParentOf(call.self)].ref],
                       inst[call.self].at.attrname),
               inst[call.self].at.keys)

(* C9: drop(inplace=False) on a table view returns a plain table, the       *)
(* view's rows without the label, and copies, commits and changes nothing;  *)
(* drop(inplace=True) on a table view copies the root once, drops the label *)
(* from the table reached in the copy and from nothing else, and commits    *)
(* the copy to the root.                                                    *)
C9_DropSemantics ==
    [][(call'.op = "drop" /\ call'.self \in Inst
          /\ inst[call'.self].view_args # None) =>
         LET o == call'.self
             va == inst[o].view_args
         IN /\ ~call'.inplace =>
                 /\ Quiescent =>
                      /\ heap' = heap /\ roots' = roots /\ inst' = inst
                      /\ call'.copied = 0 /\ call'.committed = 0
                      /\ call'.pc \in {"done", "raised"}
                      /\ call'.pc = "done" =>
                           /\ result'.view_args = None
                           /\ DOMAIN result'.val = (DOMAIN Contents(o)) \ {call'.idx}
                           /\ \A k \in DOMAIN result'.val :
                                 result'.val[k] = Contents(o)[k]
            /\ call'.inplace =>
                 /\ \A l \in (DOMAIN heap) \ {call'.new} : heap'[l] = heap[l]
                 /\ call'.pc = "copied" =>
                      /\ call'.copied = 1
                      /\ call'.new \notin DOMAIN heap
                      /\ heap'[call'.new] = heap[roots[va.parent].ref]
                 /\ (call.pc = "yielded" /\ call'.pc = "resumed") =>
                      /\ \A p \in Paths :
                            p[1] # va.attrname =>
                               GetAttr(heap'[call.new], p[1])
                                  = GetAttr(heap[call.new], p[1])
                      /\ At(GetAttr(heap'[call.new], va.attrname), va.keys)
                            = NativeDrop(At(GetAttr(heap[call.new], va.attrname),
                                            va.keys), call.idx)
                 /\ call'.pc = "done" =>
                      /\ call'.copied = 1 /\ call'.committed = 1
                      /\ roots'[va.parent].ref = call'.new
                      /\ ~roots'[va.parent].is_view]_vars

(* drop(inplace=False) on a table view has returned a table after a         *)
(* drop(inplace=True) had materialized the root: the root has lost a label  *)
(* that the view and the returned table went on without.                    *)
C9_Witness ==
    /\ call.pc = "done"
    /\ call.op = "drop"
    /\ ~call.inplace
    /\ inst[call.self].view_args # None
    /\ result.tag = "table"
    /\ ~roots[ParentOf(call.self)].is_view
    /\ DOMAIN Contents(call.self) = Keys
    /\ DOMAIN heap[roots[ParentOf(call.self)].ref].obs # Keys

(* C10, as stated: deep-copying a view returns a plain instance holding     *)
(* the container found through the root at the descriptor's attribute and   *)
(* full path of keys, for every view class.                                 *)
C10_DeepCopyOfSubContainer ==
    (call.op = "deepcopy" /\ call.pc # "idle"
        /\ inst[call.self].view_args # None) =>
       LET va == inst[call.self].view_args
       IN /\ call.pc = "done"
          /\ result.view_args = None
          /\ result.keys = va.keys
          /\ result.val = At(GetAttr(heap[roots[va.parent].ref], va.attrname),
                             va.keys)

(* The positions of an axis of length l that subsetting by old and then by  *)
(* new selects                                                              *)
Selected(l, old, new) == SeqGetSlice(SeqGetSlice(Base(l), old), new)

(* C11: composing an old slice and a new slice on an axis of any length     *)
(* returns a slice, never an array; when the two select some position, the  *)
(* start of the slice is an integer >= 0 and its stop is None or an integer *)
(* >= 0; and a stop computed negative, which a non-empty walk backwards     *)
(* gives, is returned as None.                                              *)
C11_SliceResult ==
    comp.stage = "resolved" =>
       LET r == RangeGetSlice(SliceIndices(comp.old, comp.l), comp.new)
       IN /\ comp.idx.kind = "slice"
          /\ Len(Selected(comp.l, comp.old, comp.new)) > 0 =>
                /\ comp.idx.start # PyNone
                /\ comp.idx.start[1] >= 0
                /\ comp.idx.stop = PyNone \/ comp.idx.stop[1] >= 0
          /\ (RangeLen(r) > 0 /\ r.stop < 0) =>
                /\ comp.idx.stop = PyNone
                /\ comp.idx.step # PyNone
                /\ comp.idx.step[1] < 0

(* A forward slice over the whole axis was reversed: the walk runs from the *)
(* last position down to position 0 and its stop is open.                   *)
C11_Witness ==
    /\ comp.stage = "resolved"
    /\ comp.l = MaxL
    /\ comp.old.step = Some(1)
    /\ comp.new.step = Some(-1)
    /\ comp.idx.kind = "slice"
    /\ comp.idx.start = Some(MaxL - 1)
    /\ comp.idx.stop = PyNone
    /\ Len(Selected(comp.l, comp.old, comp.new)) = MaxL

(* C12: when an old slice and a new slice together select no position, the  *)
(* slice returned has its stop equal to its start and selects no position   *)
(* on an axis of any length, a negative start included; slice(2, 8, 2)      *)
(* composed with slice(5, 5) on an axis of length 10 gives slice(8, 8, 2).  *)
C12_EmptyCollapse ==
    /\ (comp.stage = "resolved"
          /\ Len(Selected(comp.l, comp.old, comp.new)) = 0) =>
         /\ comp.idx.kind = "slice"
         /\ comp.idx.stop = comp.idx.start
         /\ \A n \in 0..(comp.l + 1) :
               Len(SeqGetSlice(Base(n), comp.idx)) = 0
    /\ (comp.stage = "resolved" /\ comp.l = ExampleSubset.l
          /\ comp.old = ExampleSubset.old /\ comp.new = ExampleNew) =>
         /\ Len(Selected(comp.l, comp.old, comp.new)) = 0
         /\ comp.idx = Slice(Some(8), Some(8), Some(2))

(* A walk backwards over an axis of length 0 was composed: the slice        *)
(* returned starts at -1, stops at -1 and is empty on longer axes too.      *)
C12_Witness ==
    /\ comp.stage = "resolved"
    /\ comp.l = 0
    /\ comp.idx.kind = "slice"
    /\ comp.idx.start = Some(-1)
    /\ comp.idx.stop = Some(-1)
    /\ comp.idx.step = Some(-2)
    /\ Len(SeqGetSlice(Base(MaxL), comp.idx)) = 0

(* base[i] for a base of length l holding its own positions; an index that *)
(* could not be computed cannot be applied                                  *)
BaseGetItem(l, i) ==
    IF i.kind = "IndexError" THEN IndexError ELSE NdGetItem(Base(l), i)

(* base[old][new] *)
BaseGetBoth(l, old, new) ==
    LET sel == BaseGetItem(l, old)
    IN IF sel.kind = "ints" THEN NdGetItem(sel.items, new) ELSE IndexError

(* C13: on an axis of any length l, when old is a mask, an array of         *)
(* positions or a slice, and new is an integer, an array of integers or a   *)
(* mask over the positions old selects, or a slice when old is no slice,    *)
(* base[old][new] = base[_resolve_idx(old, new, l)]; the mask               *)
(* [T, F, T, T, F] composed with the integer 1 gives position 2.            *)
C13_MixedComposition ==
    /\ (comp.stage = "resolved"
          /\ comp.old.kind \in {"mask", "ints", "slice"}
          /\ ~(comp.old.kind = "slice" /\ comp.new.kind = "slice")
          /\ BaseGetBoth(comp.l, comp.old, comp.new).kind # "IndexError") =>
         /\ comp.idx.kind # "IndexError"
         /\ BaseGetItem(comp.l, comp.idx)
               = BaseGetBoth(comp.l, comp.old, comp.new)
    /\ (comp.stage = "resolved" /\ comp.l = ExampleMaskSubset.l
          /\ comp.old = ExampleMaskSubset.old /\ comp.new.kind = "int") =>
         (comp.new.n = 1 => comp.idx = IntScalar(2))

(* The mask [T, F, T, T, F] was composed with the integer 1: position 2.    *)
C13_Witness ==
    /\ comp.stage = "resolved"
    /\ comp.l = ExampleMaskSubset.l
    /\ comp.old = ExampleMaskSubset.old
    /\ comp.new.kind = "int"
    /\ comp.new.n = 1
    /\ comp.idx.kind = "int"
    /\ comp.idx.n = 2
    /\ BaseGetBoth(comp.l, comp.old, comp.new) = IntScalar(2)

(* C14: as_view called on a dense array, a table, a sparse matrix in row or *)
(* column layout or a mapping returns a view of the matching class that     *)
(* carries the descriptor given; called on a ZappyArray it returns the      *)
(* argument as it is; called on a container of any other type it raises     *)
(* NotImplementedError naming the type; and no call of as_view changes a    *)
(* root, any storage or any instance.                                       *)
C14_ViewFactory ==
    [][(Quiescent /\ call'.op = "as_view") =>
         LET t == call'.type
             Built(cls) == /\ call'.pc = "done"
                           /\ result'.tag = "view"
                           /\ result'.val = cls
                           /\ result'.view_args = Descriptor(call'.self)
         IN /\ t = "ndarray" => Built("ArrayView")
            /\ t = "DataFrame" => Built("DataFrameView")
            /\ t = "csr_matrix" => Built("SparseCSRView")
            /\ t = "csc_matrix" => Built("SparseCSCView")
            /\ t = "dict" => Built("DictView")
            /\ t = "ZappyArray" =>
                  /\ call'.pc = "done"
                  /\ result'.tag = "unchanged"
                  /\ result'.val = t
            /\ t \notin {"ndarray", "DataFrame", "csr_matrix", "csc_matrix",
                          "dict", "ZappyArray"} =>
                  /\ call'.pc = "raised"
                  /\ result'.tag = "NotImplementedError"
                  /\ result'.val = t
            /\ roots' = roots /\ heap' = heap /\ inst' = inst]_vars

(* as_view was called on a list with the descriptor of a view whose root    *)
(* was already materialized: it raised, naming the type.                    *)
C14_Witness ==
    /\ call.op = "as_view"
    /\ call.pc = "raised"
    /\ call.type = "list"
    /\ Descriptor(call.self) # None
    /\ ~roots[Descriptor(call.self).parent].is_view
    /\ result.tag = "NotImplementedError"
    /\ result.val = "list"

(* The data of a root with value assigned at idx of the container that the  *)
(* descriptor va of a view of class cls names                               *)
Assigned(data, va, cls, idx, value) ==
    LET attr == GetAttr(data, va.attrname)
    IN SetAttr(data, va.attrname,
               Replace(attr, va.keys,
                       NativeSetItem(cls, Reduce(attr, va.keys), idx, value)))

(* C15, as stated: every intercepted item assignment on a view has copied   *)
(* the root exactly once and committed exactly once by the time control is  *)
(* back with the caller; an assignment that returns leaves the root with    *)
(* the data it had before the call and this assignment applied to it, so    *)
(* that a sequence of them leaves the initial data with all of them applied *)
(* in call order; and no other step of the call changes what a root reads.  *)
C15_OneCopyOneCommit ==
    [][OnView(call', "setitem") =>
         LET o == call'.self
             va == inst[o].view_args
         IN /\ call'.copied <= 1
            /\ call'.committed <= 1
            /\ call'.pc \in {"done", "raised"} =>
                  call'.copied = 1 /\ call'.committed = 1
            /\ \A r \in Roots \ {va.parent} :
                  heap'[roots'[r].ref] = heap[roots[r].ref]
            /\ IF call'.pc = "done"
               THEN heap'[roots'[va.parent].ref]
                       = Assigned(heap[roots[va.parent].ref], va, inst[o].cls,
                                  call'.idx, call'.value)
               ELSE heap'[roots'[va.parent].ref]
                       = heap[roots[va.parent].ref]]_vars

(* C16, as stated: drop(inplace=True) on a table instance whose descriptor  *)
(* is None never raises, copies no root and commits nothing, and once it    *)
(* has returned the instance has lost the label dropped.                    *)
C16_NativeDropOnNonView ==
    (call.op = "drop" /\ call.inplace /\ call.self \in Inst
        /\ inst[call.self].view_args = None) =>
       /\ call.pc # "raised"
       /\ call.copied = 0
       /\ call.committed = 0
       /\ call.pc = "done" => call.idx \notin DOMAIN Contents(call.self)

(* The path of the view a mutating call was made on has a key that the     *)
(* root's attribute, read in the data h through the roots rs, lacks         *)
ResolveFails(c, h, rs) ==
    /\ Intercepted(c)
    /\ LET va == inst[c.self].view_args
       IN ~CanReduce(GetAttr(h[rs[va.parent].ref], va.attrname), va.keys)

(* C17: when a mutating call is made on a view whose path has a key absent  *)
(* from the root's attribute, no step of the call changes any root or any   *)
(* storage that existed, the container is never yielded and nothing is      *)
(* mutated or committed, the call never returns normally, and when it has   *)
(* raised the root reads what it read before the call and the copy made is  *)
(* equal to it.                                                             *)
C17_ResolveFailure ==
    [][ResolveFails(call', heap', roots') =>
         LET va == inst[call'.self].view_args
         IN /\ roots' = roots
            /\ \A l \in DOMAIN heap : heap'[l] = heap[l]
            /\ call'.pc \in {"update", "copied", "raised"}
            /\ ~call'.yielded
            /\ call'.committed = 0
            /\ call'.pc = "raised" =>
                  /\ call'.copied = 1
                  /\ roots'[va.parent].ref # call'.new
                  /\ heap'[call'.new] = heap'[roots'[va.parent].ref]]_vars

(* An assignment through a view nested under uns has raised while its path  *)
(* was resolved in the copy, an earlier assignment having replaced the      *)
(* mapping above it: nothing was committed and the root reads what the      *)
(* earlier assignment left.                                                 *)
C17_Witness ==
    /\ call.pc = "raised"
    /\ OnView(call, "setitem")
    /\ ResolveFails(call, heap, roots)
    /\ ~call.yielded
    /\ call.copied = 1
    /\ call.committed = 0
    /\ Len(inst[call.self].view_args.keys) = 2
    /\ roots[ParentOf(call.self)].ref # Upstream
    /\ roots[ParentOf(call.self)].ref # call.new

(* C18, as stated: an array cut out of an array view carries the view's     *)
(* descriptor, and an assignment s[k] = x on an array s that reads V's      *)
(* container from position i on, once it has returned, has changed in the   *)
(* root's container the element at position i + k, the one s[k] denotes,    *)
(* and no other.                                                            *)
C18_SubSliceAssignment ==
    [][/\ \A s \in Inst :
             inst'[s] # inst[s] =>
                \E v \in Inst \ {s} :
                   /\ inst'[s].cls = "ArrayView"
                   /\ inst'[s].view_args = inst[v].view_args
                   /\ inst'[s].at.loc = inst[v].at.loc
       /\ (OnView(call', "setitem") /\ call'.pc = "done"
             /\ inst[call'.self].cls = "ArrayView"
             /\ call'.idx \in DOMAIN Contents(call'.self)) =>
            LET o == call'.self
                va == inst[o].view_args
                old == At(GetAttr(heap[roots[va.parent].ref], va.attrname),
                          va.keys)
                new == At(GetAttr(heap'[roots'[va.parent].ref], va.attrname),
                          va.keys)
            IN new = [old EXCEPT ![inst[o].at.offset + call'.idx] =
                                    call'.value]]_vars

====
